---------------------------- MODULE Spec2Model ----------------------------
(***************************************************************************)
(* A model of the OIFITS ingestion and selection layer of ir-tools:        *)
(*   ir_tools/plotting/io.py      read, sort, filter, _get_header_entry    *)
(*   ir-tools/plotting/oifits.py  get_station_names, read_data             *)
(* One call is made per behaviour (variable call); its arguments are drawn *)
(* in Init, and every statement group of the called function is an action. *)
(***************************************************************************)
EXTENDS Integers, Sequences, FiniteSets, TLC

\* ------------------------------------------------------------------ bounds
\* The longest argument list of a call.
MaxInputs == 2
\* Handles the caller has opened before the call.
NumHandles == 2
\* HDUs in a caller's open HDUList.
NumHdus == 2
\* The most rows of a measurement table.
MaxRows == 2

VARIABLES
    call,            \* the function being called
    heap,            \* HDUList objects, by identity (position)
    files_or_hduls,  \* read: the argument, [bare, items]
    iter,            \* read / read_data: the sequence the for loop walks
    i,               \* read / read_data: position of the loop in iter
    hdul,            \* read / read_data: the local hdul (an object id, 0: unset)
    cm,              \* read / read_data: the HDUList the with statement manages
    hduls,           \* read: the local list hduls (object ids); sort, filter: the argument
    by,              \* sort: the argument by, [bare, keys]
    conditions,      \* filter: the argument conditions, a set of [key, value]
    df,              \* sort: the rows of the DataFrame
    data,            \* read_data: the local Data being built
    key,             \* read_data: position of the inner loop in Keys; get, set: the path
    index,           \* read_data: the local index (None or 20)
    sta_index_pairs, \* get_station_names: the STA_INDEX column, [ndim, rows]
    sta_index,       \* get_station_names: the array table's STA_INDEX column
    tel_name,        \* get_station_names: the array table's name column
    value,           \* set: the argument value
    disk,            \* delete_add_ins, calculate_vis: the files on disk, by path
    pc,              \* the statement the call is at
    result,          \* what the caller receives: <<>> until the call returns, then <<value>>
    exc              \* the exception in flight or raised, None if none

vars == <<call, heap, files_or_hduls, iter, i, hdul, cm, hduls, by, conditions, df,
          data, key, index, sta_index_pairs, sta_index, tel_name, value, disk, pc,
          result, exc>>

\* What the actions of read, of read_data, of sort and filter and of
\* get_station_names leave alone.
exRead == <<call, by, conditions, df, data, key, index, sta_index_pairs, sta_index,
            tel_name, value, disk>>
exData == <<call, by, conditions, df, hduls, sta_index_pairs, sta_index, tel_name,
            value, disk>>
exSel == <<call, heap, files_or_hduls, iter, i, hdul, cm, data, key, index,
           sta_index_pairs, sta_index, tel_name, value, disk>>
exNames == <<call, heap, files_or_hduls, iter, i, hdul, cm, hduls, by, conditions, df,
             data, key, index, sta_index_pairs, sta_index, tel_name, value, disk>>

None == "None"

\* 1..n for sequences of length at most n over S
SeqUpTo(S, n) == UNION {[1..k -> S] : k \in 0..n}

\* --------------------------------------------------------------- the heap
\* An HDUList object: what it holds, whether it was closed, and where it came
\* from: "caller" (opened by the caller before the call), "open" (fits.open in
\* the call: holds the source file until closed), "deepcopy" (copy.deepcopy: owns
\* its data), "copy" (HDUList.copy: a new list of the same HDU objects).
Handles == 1..NumHandles

CallerHeap == [o \in Handles |-> [content |-> <<"handle", o>>, closed |-> FALSE,
                                  origin |-> "caller"]]

\* The source files the call holds open.
OpenSources == {o \in DOMAIN heap : heap[o].origin = "open" /\ ~heap[o].closed}

\* fits.open(path): a new file-backed HDUList
Opened(content) == [content |-> content, closed |-> FALSE, origin |-> "open"]

\* copy.deepcopy(hdul): a new HDUList owning a copy of every HDU
DeepCopy(o) == [content |-> heap[o].content, closed |-> FALSE, origin |-> "deepcopy"]

\* leaving "with fits.open(...) as hdul": the file-backed HDUList is closed
ClosedNot(h, o) == h

Closed(h, o) == [h EXCEPT ![o].closed = TRUE]

NoBy == [bare |-> FALSE, keys |-> <<>>]
NoArg == [bare |-> FALSE, items |-> <<>>]
NoPairs == [ndim |-> 2, rows |-> <<>>]
NoDisk == <<>>

\* ------------------------------------------------------------ data model
\* Dataset(): six parallel lists, one entry per ingested table
Dataset == [header |-> <<>>, val |-> <<>>, err |-> <<>>, x |-> <<>>, y |-> <<>>,
            name |-> <<>>]

\* Data()
Data == [hduls |-> <<>>, header |-> <<>>, wl |-> <<>>, array |-> <<>>,
         flux |-> Dataset, vis2 |-> Dataset, t3 |-> Dataset, vis |-> Dataset,
         visphi |-> Dataset]

\* A variant that leaves the err list as it was.
AppendRecordNoErr(ds, h, val, err, x, y, name) ==
    [header |-> Append(ds.header, h), val |-> Append(ds.val, val),
     err |-> ds.err, x |-> Append(ds.x, x), y |-> Append(ds.y, y),
     name |-> Append(ds.name, name)]

\* getattr(data, key).header.append(h), .val.append(val), ... .name.append(name)
AppendRecord(ds, h, val, err, x, y, name) ==
    [header |-> Append(ds.header, h), val |-> Append(ds.val, val),
     err |-> Append(ds.err, err), x |-> Append(ds.x, x), y |-> Append(ds.y, y),
     name |-> Append(ds.name, name)]

\* ------------------------------------------------------------- arguments
\* What a path names on disk: a readable file, one fits.open cannot open, or
\* one whose header opens and whose HDUs cannot all be read.
PathStates == {"ok", "corrupt", "truncated"}

\* The primary header's INSTRUME of a file.
Instruments == {"GRAVITY", "PIONIER"}

\* A file on disk: whether it opens, its instrument, its oi_vis table ("absent",
\* "novisphi": present without a VISPHI column, "visphi": present with one),
\* the number of rows of its oi_vis2 table, and whether its oi_flux table has a
\* STA_INDEX column (the column is optional there).
File(state, instrume, vis, rows, fluxsta) ==
    [state |-> state, instrume |-> instrume, vis |-> vis, rows |-> rows,
     fluxsta |-> fluxsta]

PlainFile(state) == File(state, "PIONIER", "visphi", 1, TRUE)

PathItem(file) == [kind |-> "path", file |-> file, obj |-> 0, idx |-> 0]
HandleItem(o) == [kind |-> "hdul", file |-> PlainFile("ok"), obj |-> o, idx |-> 0]
HduItem(o, j) == [kind |-> "hdu", file |-> PlainFile("ok"), obj |-> o, idx |-> j]

ReadItems == {PathItem(PlainFile(s)) : s \in PathStates}
             \cup {HandleItem(o) : o \in Handles}

\* read's argument: one bare path or handle, or a list of them
ReadArgs == {[bare |-> TRUE, items |-> <<it>>] : it \in ReadItems}
            \cup {[bare |-> FALSE, items |-> s] : s \in SeqUpTo(ReadItems, MaxInputs)}

\* What the k-th file of the argument holds.
FileContent(k) == <<"file", k>>

\* ------------------------------------------------------------------ read
\* isinstance(files_or_hduls, (tuple, list, np.ndarray)): a bare HDUList passes,
\* it is a list (of HDUs)
IsSequence(arg) == ~arg.bare \/ arg.items[1].kind = "hdul"

\* what "for fits_file in files_or_hduls" walks after lines 18-19
Normalised(arg) ==
    IF ~IsSequence(arg) THEN <<arg.items[1]>>
    ELSE IF arg.bare THEN [j \in 1..NumHdus |-> HduItem(arg.items[1].obj, j)]
    ELSE arg.items

\* isinstance(fits_file, fits.HDUList)
IsHDUList(item) == item.kind = "hdul"

\* fits.open(fits_file) succeeds on a path whose file opens
CanOpen(item) == item.kind = "path" /\ item.file.state # "corrupt"

\* ----------------------------------------------------- get_station_names
SeqMax(S) == CHOOSE m \in S : \A n \in S : n <= m

\* A variant that joins the parts last to first.
RECURSIVE JoinReversed(_)
JoinReversed(parts) ==
    IF Len(parts) = 0 THEN <<>>
    ELSE IF Len(parts) = 1 THEN parts[1]
    ELSE JoinReversed(Tail(parts)) \o <<"-">> \o parts[1]

\* "-".join(parts): the parts with the separator between them, as characters
RECURSIVE Join(_)
Join(parts) ==
    IF Len(parts) = 0 THEN <<>>
    ELSE IF Len(parts) = 1 THEN parts[1]
    ELSE parts[1] \o <<"-">> \o Join(Tail(parts))

\* dict(zip(sta_index, tel_name)).get(x): the name zipped last with x, or None
StaToTel(x, sta, tel) ==
    LET n == IF Len(sta) < Len(tel) THEN Len(sta) ELSE Len(tel)
        ks == {k \in 1..n : sta[k] = x}
    IN  IF ks = {} THEN [none |-> TRUE, str |-> <<>>]
        ELSE [none |-> FALSE, str |-> tel[SeqMax(ks)]]

\* str(None), what a None becomes in an array of strings
NoneStr == <<"N", "o", "n", "e">>

\* get_station_names(sta_index_pairs, sta_index, tel_name). sta_index_pairs is
\* [ndim, rows]: ndim 2, each row a list of indices, or ndim 1, each row one
\* index. np.vectorize types its output by the first element's result: an array
\* of strings (a later None becomes "None") or of objects (a None stays None and
\* str.join raises TypeError); it raises ValueError on an input of size 0.
\* Iterating a 2-d result gives rows of names, which are joined; iterating a 1-d
\* result gives names, whose characters are joined.
GetStationNames(pairs, sta, tel) ==
    LET rows == pairs.rows
        look(x) == StaToTel(x, sta, tel)
        size0 == Len(rows) = 0 \/ (pairs.ndim = 2 /\ Len(rows[1]) = 0)
        first == IF pairs.ndim = 2 THEN look(rows[1][1]) ELSE look(rows[1])
        elem(x) == IF look(x).none THEN NoneStr ELSE look(x).str
        label(r) == IF pairs.ndim = 2
                    THEN Join([c \in 1..Len(rows[r]) |-> elem(rows[r][c])])
                    ELSE Join([c \in 1..Len(elem(rows[r])) |-> <<elem(rows[r])[c]>>])
    IN  IF size0 THEN [err |-> "ValueError", val |-> <<>>]
        ELSE IF first.none THEN [err |-> "TypeError", val |-> <<>>]
        ELSE [err |-> None, val |-> [r \in 1..Len(rows) |-> label(r)]]

\* ------------------------------------------------------- a file's tables
\* The table index read_data passes for the multi-table instrument family, and
\* the index None.
GravIndex == 20
NoIndex == 0

\* "grav" in header["INSTRUME"].lower()
IsGrav(instrume) == instrume = "GRAVITY"

\* The EXTVERs under which a file holds each of its tables, in file order.
ExtVers(file) == IF IsGrav(file.instrume) THEN <<10, GravIndex>> ELSE <<1>>

\* f"oi_{key}" in hdul
HasExt(file, ext) == ext # "oi_vis" \/ file.vis # "absent"

\* hdul[ext, idx]: the table of that name and EXTVER (the first of that name
\* when idx is None); found is FALSE where astropy raises KeyError
Lookup(file, ext, idx) ==
    LET vers == ExtVers(file)
    IN  IF ~HasExt(file, ext) THEN [found |-> FALSE, ver |-> 0]
        ELSE IF idx = NoIndex THEN [found |-> TRUE, ver |-> vers[1]]
        ELSE IF \E k \in 1..Len(vers) : vers[k] = idx THEN [found |-> TRUE, ver |-> idx]
        ELSE [found |-> FALSE, ver |-> 0]

\* Rows of a table. The oi_vis table has as many rows as the others in a file
\* of MaxRows rows, and one row more in any other file.
Rows(file, ext) ==
    IF ext = "oi_vis" /\ file.rows < MaxRows THEN file.rows + 1 ELSE file.rows

\* The oi_array table of every file: stations 1..NumStations named A0, B0, ...
NumStations == MaxRows + 2
Letters == <<"A", "B", "C", "D", "E", "F", "G", "H">>
ArraySta == [k \in 1..NumStations |-> k]
ArrayNames == [k \in 1..NumStations |-> <<Letters[k], "0">>]

\* The STA_INDEX column of a table.
StaIndex(file, ext) ==
    LET n == Rows(file, ext)
    IN  IF ext = "oi_flux" THEN [ndim |-> 1, rows |-> [r \in 1..n |-> r]]
        ELSE IF ext = "oi_t3" THEN [ndim |-> 2, rows |-> [r \in 1..n |-> <<r, r + 1, r + 2>>]]
        ELSE IF ext = "oi_vis" THEN [ndim |-> 2, rows |-> [r \in 1..n |-> <<r + 1, r>>]]
        ELSE [ndim |-> 2, rows |-> [r \in 1..n |-> <<r, r + 1>>]]

\* The FLAG column of a table: its last row is flagged.
Flag(file, ext) == [r \in 1..Rows(file, ext) |-> r = Rows(file, ext)]

\* card.columns.names
Columns(file, ext) ==
    IF ext = "oi_flux"
    THEN (IF IsGrav(file.instrume) THEN {"FLUX"} ELSE {"FLUXDATA"})
         \cup {"FLUXERR", "FLAG"}
         \cup (IF file.fluxsta THEN {"STA_INDEX"} ELSE {})
    ELSE IF ext = "oi_vis"
    THEN {"VISAMP", "VISAMPERR", "UCOORD", "VCOORD", "FLAG", "STA_INDEX"}
         \cup (IF file.vis = "visphi" THEN {"VISPHI", "VISPHIERR"} ELSE {})
    ELSE IF ext = "oi_vis2"
    THEN {"VIS2DATA", "VIS2ERR", "UCOORD", "VCOORD", "FLAG", "STA_INDEX"}
    ELSE {"T3PHI", "T3PHIERR", "U1COORD", "U2COORD", "V1COORD", "V2COORD", "FLAG",
          "STA_INDEX"}

\* card.data[col] of table (ext, ver) of the k-th file: a column is its place
\* and its row count; a coordinate column is its numbers
Column(k, file, ext, ver, col) ==
    [file |-> k, ext |-> ext, ver |-> ver, col |-> col, rows |-> Rows(file, ext)]

Coord(file, ext, ver, col) ==
    LET n == Rows(file, ext)
    IN  IF col \in {"ucoord", "u1coord"} THEN [r \in 1..n |-> ver + r]
        ELSE IF col = "u2coord" THEN [r \in 1..n |-> ver + 2 * r]
        ELSE IF col \in {"vcoord", "v1coord"} THEN [r \in 1..n |-> 0 - r]
        ELSE [r \in 1..n |-> 3 * r]

\* card.header, hdul[0].header
Header(k, ext, ver) == [file |-> k, ext |-> ext, ver |-> ver]

\* A variant that stores the values with nothing masked.
MaskedArrayNoMask(values, mask) == [data |-> values, mask |-> [r \in DOMAIN mask |-> FALSE]]

\* np.ma.masked_array(values, mask=flag)
MaskedArray(values, mask) == [data |-> values, mask |-> mask]

\* np.ma.masked_invalid(np.full(shape, np.nan)): every sample is NaN and masked
MaskedNaN(shape) == [data |-> [file |-> 0, ext |-> "", ver |-> 0, col |-> "nan",
                               rows |-> shape],
                     mask |-> [r \in 1..shape |-> TRUE]]

\* array.shape, by the leading axis
Shape(arr) == arr.data.rows

\* A variant that takes the difference of the two legs.
VecSub(a, b) == [r \in 1..Len(a) |-> a[r] - b[r]]

\* x1coord + x2coord
VecAdd(a, b) == [r \in 1..Len(a) |-> a[r] + b[r]]

InitRead ==
    /\ call = "read"
    /\ heap = CallerHeap
    /\ files_or_hduls \in ReadArgs
    /\ iter = <<>> /\ i = 0 /\ hdul = 0 /\ cm = 0 /\ hduls = <<>>
    /\ by = NoBy /\ conditions = {} /\ df = <<>>
    /\ data = Data /\ key = 0 /\ index = NoIndex
    /\ sta_index_pairs = NoPairs /\ sta_index = <<>> /\ tel_name = <<>>
    /\ value = None /\ disk = NoDisk
    /\ pc = "start" /\ result = <<>> /\ exc = None

\* lines 18-21
ReadNormalise ==
    /\ call = "read" /\ pc = "start"
    /\ iter' = Normalised(files_or_hduls)
    /\ hduls' = <<>> /\ i' = 1 /\ pc' = "for"
    /\ UNCHANGED <<exRead, heap, files_or_hduls, hdul, cm, result, exc>>

\* lines 23-24: an HDUList is taken as it is
ReadTakeHandleCopied ==
    /\ call = "read" /\ pc = "for" /\ i <= Len(iter) /\ IsHDUList(iter[i])
    /\ heap' = Append(heap, DeepCopy(iter[i].obj))
    /\ hdul' = Len(heap) + 1 /\ pc' = "append"
    /\ UNCHANGED <<exRead, files_or_hduls, iter, i, cm, hduls, result, exc>>

ReadTakeHandle ==
    /\ call = "read" /\ pc = "for" /\ i <= Len(iter) /\ IsHDUList(iter[i])
    /\ hdul' = iter[i].obj /\ pc' = "append"
    /\ UNCHANGED <<exRead, heap, files_or_hduls, iter, i, cm, hduls, result, exc>>

\* line 26: with fits.open(fits_file) as hdul
ReadOpen ==
    /\ call = "read" /\ pc = "for" /\ i <= Len(iter) /\ ~IsHDUList(iter[i])
    /\ CanOpen(iter[i])
    /\ heap' = Append(heap, Opened(FileContent(i)))
    /\ hdul' = Len(heap) + 1 /\ cm' = Len(heap) + 1 /\ pc' = "with"
    /\ UNCHANGED <<exRead, files_or_hduls, iter, i, hduls, result, exc>>

\* line 26: fits.open raises (no file was opened): the call ends, its locals
\* are gone and the caller receives the exception only
ReadOpenFail ==
    /\ call = "read" /\ pc = "for" /\ i <= Len(iter) /\ ~IsHDUList(iter[i])
    /\ ~CanOpen(iter[i])
    /\ exc' = (IF iter[i].kind = "path" THEN "OSError" ELSE "OpenError")
    /\ pc' = "raised"
    /\ UNCHANGED <<exRead, heap, files_or_hduls, iter, i, hdul, cm, hduls, result>>

\* line 27: hdul = copy.deepcopy(hdul), the with target is rebound
ReadDeepCopy ==
    /\ call = "read" /\ pc = "with"
    /\ IF iter[i].file.state = "truncated"
       THEN /\ exc' = "OSError"
            /\ UNCHANGED <<heap, hdul>>
       ELSE /\ heap' = Append(heap, DeepCopy(hdul))
            /\ hdul' = Len(heap) + 1
            /\ UNCHANGED exc
    /\ pc' = "exit_with"
    /\ UNCHANGED <<exRead, files_or_hduls, iter, i, cm, hduls, result>>

\* leaving the with block of line 26, normally or by an exception: the HDUList
\* fits.open returned is closed
ReadExitWith ==
    /\ call = "read" /\ pc = "exit_with"
    /\ heap' = Closed(heap, cm)
    /\ pc' = (IF exc = None THEN "append" ELSE "raised")
    /\ UNCHANGED <<exRead, files_or_hduls, iter, i, hdul, cm, hduls, result, exc>>

\* line 29
ReadAppendFront ==
    /\ call = "read" /\ pc = "append"
    /\ hduls' = <<hdul>> \o hduls /\ i' = i + 1 /\ pc' = "for"
    /\ UNCHANGED <<exRead, heap, files_or_hduls, iter, hdul, cm, result, exc>>

ReadAppend ==
    /\ call = "read" /\ pc = "append"
    /\ hduls' = Append(hduls, hdul) /\ i' = i + 1 /\ pc' = "for"
    /\ UNCHANGED <<exRead, heap, files_or_hduls, iter, hdul, cm, result, exc>>

\* line 30
ReadReturn ==
    /\ call = "read" /\ pc = "for" /\ i > Len(iter)
    /\ result' = <<hduls>> /\ pc' = "returned"
    /\ UNCHANGED <<exRead, heap, files_or_hduls, iter, i, hdul, cm, hduls, exc>>

\* After the call the caller closes one of its own handles, or changes it.
CallerClose(o) ==
    /\ call = "read" /\ pc \in {"returned", "raised"}
    /\ ~heap[o].closed
    /\ heap' = Closed(heap, o)
    /\ UNCHANGED <<exRead, files_or_hduls, iter, i, hdul, cm, hduls, pc, result, exc>>

CallerModify(o) ==
    /\ call = "read" /\ pc \in {"returned", "raised"}
    /\ heap[o].content = <<"handle", o>>
    /\ heap' = [heap EXCEPT ![o].content = <<"modified", o>>]
    /\ UNCHANGED <<exRead, files_or_hduls, iter, i, hdul, cm, hduls, pc, result, exc>>

NextRead ==
    \/ ReadNormalise
    \/ ReadTakeHandle
    \/ ReadOpen
    \/ ReadOpenFail
    \/ ReadDeepCopy
    \/ ReadExitWith
    \/ ReadAppend
    \/ ReadReturn
    \/ \E o \in Handles : CallerClose(o)
    \/ \E o \in Handles : CallerModify(o)

\* ------------------------------------------------------------- read_data
\* The files read_data is given: one that cannot be opened, or a readable one
\* of either instrument, with or without oi_vis and VISPHI.
DataFiles == {File("corrupt", "PIONIER", "visphi", 1, TRUE)}
             \cup {File("ok", n, v, r, TRUE) : n \in Instruments,
                                              v \in {"absent", "novisphi", "visphi"},
                                              r \in 1..MaxRows}
             \cup {File("ok", n, "visphi", 1, FALSE) : n \in Instruments}

\* read_data's argument: one bare Path, or a list of paths
DataArgs == {[bare |-> TRUE, items |-> <<PathItem(f)>>] : f \in DataFiles}
            \cup {[bare |-> FALSE, items |-> s] :
                    s \in SeqUpTo({PathItem(f) : f \in DataFiles}, MaxInputs)}

\* line 66: [fits_files] if isinstance(fits_files, Path) else fits_files
DataNormalised(arg) == IF arg.bare THEN <<arg.items[1]>> ELSE arg.items

\* line 73
Keys == <<"array", "flux", "vis2", "vis", "t3">>

\* f"oi_{key}"
Ext(k) == CASE k = "array" -> "oi_array"
            [] k = "flux" -> "oi_flux"
            [] k = "vis2" -> "oi_vis2"
            [] k = "vis" -> "oi_vis"
            [] k = "t3" -> "oi_t3"

Last(seq) == seq[Len(seq)]

\* hdul.copy(): a new HDUList of the same HDU objects
ShallowCopy(o) == [content |-> heap[o].content, closed |-> FALSE, origin |-> "copy"]

\* lines 83, 87, 117, 120: val_key
ValKey(file, k) ==
    CASE k = "flux" -> (IF "FLUXDATA" \in Columns(file, "oi_flux") THEN "fluxdata"
                        ELSE "flux")
      [] k = "vis" -> "visamp"
      [] k = "vis2" -> "vis2data"
      [] k = "t3" -> "t3phi"

\* lines 84, 87, 117, 120: err_key
ErrKey(k) ==
    CASE k = "flux" -> "fluxerr"
      [] k = "vis" -> "visamperr"
      [] k = "vis2" -> "vis2err"
      [] k = "t3" -> "t3phierr"

\* lines 85, 88, 118, 121-123: xcoord
XCoord(file, k, ver) ==
    CASE k = "flux" -> <<>>
      [] k \in {"vis", "vis2"} -> Coord(file, Ext(k), ver, "ucoord")
      [] k = "t3" -> LET x1coord == Coord(file, "oi_t3", ver, "u1coord")
                         x2coord == Coord(file, "oi_t3", ver, "u2coord")
                     IN  <<x1coord, x2coord, VecAdd(x1coord, x2coord)>>

\* lines 85, 88, 118, 122-124: ycoord
YCoord(file, k, ver) ==
    CASE k = "flux" -> <<>>
      [] k \in {"vis", "vis2"} -> Coord(file, Ext(k), ver, "vcoord")
      [] k = "t3" -> LET y1coord == Coord(file, "oi_t3", ver, "v1coord")
                         y2coord == Coord(file, "oi_t3", ver, "v2coord")
                     IN  <<y1coord, y2coord, VecAdd(y1coord, y2coord)>>

\* lines 96-100, 136-140: the names of a card's rows, by the array table
\* appended last; card.data["sta_index"] raises KeyError without the column
CardNames(d, file, ext) ==
    IF "STA_INDEX" \notin Columns(file, ext) THEN [err |-> "KeyError", val |-> <<>>]
    ELSE GetStationNames(StaIndex(file, ext), Last(d.array).sta_index,
                         Last(d.array).sta_name)

\* lines 103, 106: data.vis2.val[-1].shape
SynthShapeOfFirst(d) == Shape(d.vis2.val[1])

SynthShape(d) == Shape(Last(d.vis2.val))

\* lines 89-108: visphi_val, visphi_err, visphi_name of an oi_vis card
Visphi(d, n, file, ver) ==
    IF "VISPHI" \in Columns(file, "oi_vis")
    THEN LET names == CardNames(d, file, "oi_vis")
         IN  [err |-> names.err,
              val |-> MaskedArray(Column(n, file, "oi_vis", ver, "visphi"),
                                  Flag(file, "oi_vis")),
              verr |-> MaskedArray(Column(n, file, "oi_vis", ver, "visphierr"),
                                   Flag(file, "oi_vis")),
              name |-> names.val]
    ELSE [err |-> None,
          val |-> MaskedNaN(SynthShape(d)),
          verr |-> MaskedNaN(SynthShape(d)),
          name |-> Last(d.vis2.name)]

InitData ==
    /\ call = "read_data"
    /\ heap = CallerHeap
    /\ files_or_hduls \in DataArgs
    /\ iter = <<>> /\ i = 0 /\ hdul = 0 /\ cm = 0 /\ hduls = <<>>
    /\ by = NoBy /\ conditions = {} /\ df = <<>>
    /\ data = Data /\ key = 0 /\ index = NoIndex
    /\ sta_index_pairs = NoPairs /\ sta_index = <<>> /\ tel_name = <<>>
    /\ value = None /\ disk = NoDisk
    /\ pc = "start" /\ result = <<>> /\ exc = None

\* lines 65-66
DataStart ==
    /\ call = "read_data" /\ pc = "start"
    /\ data' = Data
    /\ iter' = DataNormalised(files_or_hduls)
    /\ i' = 1 /\ pc' = "for"
    /\ UNCHANGED <<exData, heap, files_or_hduls, hdul, cm, key, index, result, exc>>

\* line 68: with fits.open(fits_file) as hdul
DataOpen ==
    /\ call = "read_data" /\ pc = "for" /\ i <= Len(iter) /\ CanOpen(iter[i])
    /\ heap' = Append(heap, Opened(FileContent(i)))
    /\ hdul' = Len(heap) + 1 /\ cm' = Len(heap) + 1 /\ pc' = "head"
    /\ UNCHANGED <<exData, files_or_hduls, iter, i, data, key, index, result, exc>>

\* line 68: fits.open raises
DataOpenFail ==
    /\ call = "read_data" /\ pc = "for" /\ i <= Len(iter) /\ ~CanOpen(iter[i])
    /\ exc' = "OSError" /\ pc' = "raised"
    /\ UNCHANGED <<exData, heap, files_or_hduls, iter, i, hdul, cm, data, key, index, result>>

\* A variant that keeps the index of the file before when the instrument is not
\* of the family.
NewIndexKept(file) == IF IsGrav(file.instrume) THEN GravIndex ELSE index

\* line 71: 20 if "grav" in data.header[-1]["INSTRUME"].lower() else None
NewIndex(file) == IF IsGrav(file.instrume) THEN GravIndex ELSE NoIndex

\* lines 69-72
DataHead ==
    /\ call = "read_data" /\ pc = "head"
    /\ LET file == iter[i].file
           idx == NewIndex(file)
           wave == Lookup(file, "oi_wavelength", idx)
       IN  /\ heap' = Append(heap, ShallowCopy(hdul))
           /\ index' = idx
           /\ IF wave.found
              THEN /\ data' = [data EXCEPT
                        !.hduls = Append(@, Len(heap) + 1),
                        !.header = Append(@, Header(i, "primary", 0)),
                        !.wl = Append(@, Column(i, file, "oi_wavelength", wave.ver,
                                                "eff_wave"))]
                   /\ key' = 1 /\ pc' = "keys"
                   /\ UNCHANGED exc
              ELSE /\ data' = [data EXCEPT
                        !.hduls = Append(@, Len(heap) + 1),
                        !.header = Append(@, Header(i, "primary", 0))]
                   /\ exc' = "KeyError" /\ pc' = "exit_with"
                   /\ UNCHANGED key
    /\ UNCHANGED <<exData, files_or_hduls, iter, i, hdul, cm, result>>

\* lines 74-75
DataArray ==
    /\ call = "read_data" /\ pc = "keys" /\ Keys[key] = "array"
    /\ data' = [data EXCEPT !.array = Append(@, [file |-> i, sta_index |-> ArraySta,
                                                 sta_name |-> ArrayNames])]
    /\ key' = key + 1
    /\ UNCHANGED <<exData, heap, files_or_hduls, iter, i, hdul, cm, index, pc, result, exc>>

\* lines 76-141, one pass of the inner loop for a measurement key. Lines 78-79
\* do nothing; line 81 raises KeyError when the table is absent.
DataCard ==
    /\ call = "read_data" /\ pc = "keys" /\ Keys[key] # "array"
    /\ LET file == iter[i].file
           k == Keys[key]
           card == Lookup(file, Ext(k), index)
           flag == Flag(file, Ext(k))
           phi == Visphi(data, i, file, card.ver)
           xcoord == XCoord(file, k, card.ver)
           ycoord == YCoord(file, k, card.ver)
           d1 == IF k = "vis"
                 THEN [data EXCEPT !.visphi =
                         AppendRecord(@, Header(i, "oi_vis", card.ver), phi.val,
                                      phi.verr, xcoord, ycoord, phi.name)]
                 ELSE data
           val == MaskedArray(Column(i, file, Ext(k), card.ver, ValKey(file, k)), flag)
           err == MaskedArray(Column(i, file, Ext(k), card.ver, ErrKey(k)), flag)
           names == CardNames(data, file, Ext(k))
           full == [d1 EXCEPT ![k] = AppendRecord(@, Header(i, Ext(k), card.ver), val,
                                                  err, xcoord, ycoord, names.val)]
           part == [full EXCEPT ![k].name = d1[k].name]
       IN  IF ~card.found
           THEN /\ exc' = "KeyError" /\ pc' = "exit_with"
                /\ UNCHANGED <<data, key>>
           ELSE IF k = "vis" /\ phi.err # None
           THEN /\ exc' = phi.err /\ pc' = "exit_with"
                /\ UNCHANGED <<data, key>>
           ELSE IF names.err # None
           THEN /\ exc' = names.err /\ pc' = "exit_with"
                /\ data' = part
                /\ UNCHANGED key
           ELSE /\ data' = full
                /\ key' = key + 1
                /\ pc' = (IF key = Len(Keys) THEN "exit_with" ELSE "keys")
                /\ UNCHANGED exc
    /\ UNCHANGED <<exData, heap, files_or_hduls, iter, i, hdul, cm, index, result>>

\* leaving the with block of line 68, normally or by an exception
DataExitWith ==
    /\ call = "read_data" /\ pc = "exit_with"
    /\ heap' = Closed(heap, cm)
    /\ IF exc = None THEN i' = i + 1 /\ pc' = "for"
                     ELSE i' = i /\ pc' = "raised"
    /\ UNCHANGED <<exData, files_or_hduls, iter, hdul, cm, data, key, index, result, exc>>

\* line 142
DataReturn ==
    /\ call = "read_data" /\ pc = "for" /\ i > Len(iter)
    /\ result' = <<data>> /\ pc' = "returned"
    /\ UNCHANGED <<exData, heap, files_or_hduls, iter, i, hdul, cm, data, key, index, exc>>

NextData ==
    \/ DataStart
    \/ DataOpen
    \/ DataOpenFail
    \/ DataHead
    \/ DataArray
    \/ DataCard
    \/ DataExitWith
    \/ DataReturn

\* ---------------------------------------------------------- sort, filter
\* A string is the sequence of its characters' codes, so that strings compare
\* as Python compares them.
Ord(c) == CASE c = "1" -> 49 [] c = "2" -> 50 [] c = "G" -> 71 [] c = "P" -> 80
            [] c = "T" -> 84 [] c = "0" -> 48 [] c = "3" -> 51 [] c = "5" -> 53
            [] c = "-" -> 45 [] c = ":" -> 58

Str(chars) == [n \in 1..Len(chars) |-> Ord(chars[n])]

\* a < b for strings
RECURSIVE StrLess(_, _)
StrLess(a, b) ==
    IF Len(b) = 0 THEN FALSE
    ELSE IF Len(a) = 0 THEN TRUE
    ELSE IF a[1] # b[1] THEN a[1] < b[1]
    ELSE StrLess(Tail(a), Tail(b))

\* a < b for tuples of strings of one length
RECURSIVE TupleLess(_, _)
TupleLess(a, b) ==
    IF Len(a) = 0 THEN FALSE
    ELSE IF a[1] # b[1] THEN StrLess(a[1], b[1])
    ELSE TupleLess(Tail(a), Tail(b))

\* A variant that leaves the text whole.
BeforeTWhole(str) == str

\* content.split("T")[0]
RECURSIVE BeforeT(_)
BeforeT(str) ==
    IF Len(str) = 0 \/ str[1] = Ord("T") THEN <<>>
    ELSE <<str[1]>> \o BeforeT(Tail(str))

\* lines 9-12: KEY_TO_ATTRIBUTE.get(key, key).upper()
KeyToAttribute(k) ==
    CASE k = "date" -> "DATE-OBS"
      [] k = "instrument" -> "INSTRUME"
      [] k = "exptime" -> "EXPTIME"
      [] k = "index" -> "INDEX"
      [] OTHER -> k

\* A header value that is a number, not a text, set apart from every text by a
\* leading 0; numbers compare by their size.
Num(n) == <<0, n>>
IsNum(v) == Len(v) = 2 /\ v[1] = 0

\* lines 63-67. A primary header is a function from the keys it has to values.
GetHeaderEntry(h, k) ==
    LET content == IF KeyToAttribute(k) \in DOMAIN h.header
                   THEN h.header[KeyToAttribute(k)] ELSE <<>>
    IN  IF k = "date" THEN BeforeT(content) ELSE content

\* The primary headers of the loaded files: DATE-OBS is absent or day T time,
\* INSTRUME is absent, "G" or "P"; EXPTIME and INDEX are absent or integers.
DateValues == {Str(<<"1", "T", "1">>), Str(<<"1", "T", "2">>), Str(<<"2", "T", "1">>)}
InstrumeValues == {Str(<<"G">>), Str(<<"P">>)}
Headers ==
    {[k \in {} |-> <<>>]}
    \cup {[k \in {"DATE-OBS"} |-> d] : d \in DateValues}
    \cup {[k \in {"INSTRUME"} |-> n] : n \in InstrumeValues}
    \cup {[k \in {"DATE-OBS", "INSTRUME"} |-> IF k = "DATE-OBS" THEN d ELSE n] :
            d \in DateValues, n \in InstrumeValues}
    \cup {[k \in {"EXPTIME"} |-> Num(n)] : n \in 1..2}
    \cup {[k \in {"INDEX"} |-> Num(n)] : n \in 0..1}

\* The collections given to sort and filter: each loaded file is its place in
\* the collection (its identity) and its primary header.
SmallCollections ==
    UNION {{[n \in 1..len |-> [id |-> n, header |-> hs[n]]] : hs \in [1..len -> Headers]} :
             len \in 0..MaxInputs}

\* numpy's quicksort (the kind sort_values asks for by default) sorts a partition
\* whose ends are at most this far apart by insertion; it partitions a longer one.
SmallQuicksort == 16

\* Files of one night, enough of them to be partitioned: DATE-OBS of day 1, the
\* time 1 or 2.
NightFiles ==
    [n \in 1..(SmallQuicksort + 2) |->
        [id |-> n,
         header |-> [k \in {"DATE-OBS", "INSTRUME"} |->
                       IF k = "INSTRUME" THEN Str(<<"P">>)
                       ELSE IF n % 2 = 1 THEN Str(<<"1", "T", "1">>)
                       ELSE Str(<<"1", "T", "2">>)]]]

\* Three files of two days, the first and the last of the later day.
DateObs(day, time) ==
    Str(<<"2", "0", "2", "3", "-", "0", "5", "-", "0">> \o <<day>> \o <<"T">> \o time)

TwoDayFiles ==
    LET dates == <<DateObs("2", <<"0", "1", ":", "0", "0">>),
                   DateObs("1", <<"2", "3", ":", "0", "0">>),
                   DateObs("2", <<"0", "0", ":", "3", "0">>)>>
    IN  [n \in 1..3 |-> [id |-> n, header |-> [k \in {"DATE-OBS"} |-> dates[n]]]]

Collections == SmallCollections \cup {NightFiles, TwoDayFiles}

SortKeys == {"date", "instrument", "exptime", "index"}

\* sort's argument by: a bare key, or a list of distinct keys
ByArgs == {[bare |-> TRUE, keys |-> <<k>>] : k \in SortKeys}
          \cup {[bare |-> FALSE, keys |-> <<>>]}
          \cup {[bare |-> FALSE, keys |-> <<k>>] : k \in SortKeys}
          \cup {[bare |-> FALSE, keys |-> kl] : kl \in {x \in SortKeys \X SortKeys : x[1] # x[2]}}

\* filter's argument conditions: a required value for some of the keys
CondValues == {<<>>, Str(<<"G">>), Str(<<"1">>)}
ConditionArgs ==
    {{}} \cup {{[key |-> k, value |-> v]} : k \in SortKeys, v \in CondValues}
    \cup {{[key |-> "date", value |-> v], [key |-> "instrument", value |-> w]} :
            v \in CondValues, w \in CondValues}

InitSort ==
    /\ call = "sort"
    /\ heap = CallerHeap /\ files_or_hduls = NoArg
    /\ iter = <<>> /\ i = 0 /\ hdul = 0 /\ cm = 0
    /\ hduls \in Collections
    /\ by \in ByArgs /\ conditions = {} /\ df = <<>>
    /\ data = Data /\ key = 0 /\ index = NoIndex
    /\ sta_index_pairs = NoPairs /\ sta_index = <<>> /\ tel_name = <<>>
    /\ value = None /\ disk = NoDisk
    /\ pc = "start" /\ result = <<>> /\ exc = None

\* line 34
SortNormalise ==
    /\ call = "sort" /\ pc = "start"
    /\ by' = [bare |-> FALSE, keys |-> by.keys]
    /\ pc' = "frame"
    /\ UNCHANGED <<exSel, hduls, conditions, df, result, exc>>

\* The key "index" is among the keys of by.
Clobbered(keys) == \E c \in 1..Len(keys) : keys[c] = "index"

\* lines 35-38 and pd.DataFrame(data): a row per file, its index (counted from
\* 0) and its entry for every key of by. In the dict display a key "index" of by
\* replaces the column of line 36 by the files' entries for "index".
SortFrame ==
    /\ call = "sort" /\ pc = "frame"
    /\ df' = [n \in 1..Len(hduls) |->
                [index |-> IF Clobbered(by.keys) THEN GetHeaderEntry(hduls[n], "index")
                           ELSE Num(n - 1),
                 keys |-> [c \in 1..Len(by.keys) |-> GetHeaderEntry(hduls[n], by.keys[c])]]]
    /\ pc' = "sort_values"
    /\ UNCHANGED <<exSel, hduls, by, conditions, result, exc>>

\* u < v for two entries of a column: texts as texts, numbers by size, and a
\* number before a text where pandas orders a column of both.
EntryLess(u, v) == IF IsNum(u) # IsNum(v) THEN IsNum(u) ELSE StrLess(u, v)

RECURSIVE EntriesLess(_, _)
EntriesLess(a, b) ==
    IF Len(a) = 0 THEN FALSE
    ELSE IF a[1] # b[1] THEN EntryLess(a[1], b[1])
    ELSE EntriesLess(Tail(a), Tail(b))

\* row a sorts before row b
KeyLess(rows, a, b) == EntriesLess(rows[a].keys, rows[b].keys)

Swap(seg, a, b) == [seg EXCEPT ![a] = seg[b], ![b] = seg[a]]

\* Insertion sort of the places seg by their rows' keys: a place moves left past
\* the places that sort after it, so equal keys keep the order they have in seg.
RECURSIVE InsertionSort(_, _)
InsertionSort(rows, seg) ==
    IF Len(seg) <= 1 THEN seg
    ELSE LET sorted == InsertionSort(rows, SubSeq(seg, 1, Len(seg) - 1))
             x == seg[Len(seg)]
             keep == Cardinality({k \in 1..Len(sorted) : ~KeyLess(rows, x, sorted[k])})
         IN  SubSeq(sorted, 1, keep) \o <<x>> \o SubSeq(sorted, keep + 1, Len(sorted))

\* do ++pi while v[pi] < vp; do --pj while vp < v[pj]
RECURSIVE ScanUp(_, _, _, _)
ScanUp(rows, seg, pi, vp) ==
    IF KeyLess(rows, seg[pi + 1], vp) THEN ScanUp(rows, seg, pi + 1, vp) ELSE pi + 1

RECURSIVE ScanDown(_, _, _, _)
ScanDown(rows, seg, pj, vp) ==
    IF KeyLess(rows, vp, seg[pj - 1]) THEN ScanDown(rows, seg, pj - 1, vp) ELSE pj - 1

\* The partition loop of the quicksort: places are exchanged across the pivot
\* until the scans meet.
RECURSIVE Partition(_, _, _, _, _)
Partition(rows, seg, pi, pj, vp) ==
    LET ni == ScanUp(rows, seg, pi, vp)
        nj == ScanDown(rows, seg, pj, vp)
    IN  IF ni >= nj THEN [seg |-> seg, pi |-> ni]
        ELSE Partition(rows, Swap(seg, ni, nj), ni, nj, vp)

\* numpy's argsort of kind "quicksort": median of three, partition, and
\* insertion sort of the short partitions. Not stable when it partitions.
RECURSIVE AQuickSort(_, _)
AQuickSort(rows, seg) ==
    LET n == Len(seg)
        pm == 1 + ((n - 1) \div 2)
        s1 == IF KeyLess(rows, seg[pm], seg[1]) THEN Swap(seg, pm, 1) ELSE seg
        s2 == IF KeyLess(rows, s1[n], s1[pm]) THEN Swap(s1, n, pm) ELSE s1
        s3 == IF KeyLess(rows, s2[pm], s2[1]) THEN Swap(s2, pm, 1) ELSE s2
        s4 == Swap(s3, pm, n - 1)
        part == Partition(rows, s4, 1, n - 1, s3[pm])
        s5 == Swap(part.seg, part.pi, n - 1)
    IN  IF n - 1 <= SmallQuicksort THEN InsertionSort(rows, seg)
        ELSE AQuickSort(rows, SubSeq(s5, 1, part.pi - 1)) \o <<s5[part.pi]>>
             \o AQuickSort(rows, SubSeq(s5, part.pi + 1, n))

\* DataFrame.sort_values(by=by), kind left at its default "quicksort": no key,
\* the frame as it is; one key, the argsort of that column by quicksort; several
\* keys, the lexsort, which is stable
SortValues(rows, keys) ==
    LET places == [n \in 1..Len(rows) |-> n]
    IN  IF Len(keys) = 0 THEN {places}
        ELSE IF Len(keys) = 1 THEN {AQuickSort(rows, places)}
        ELSE {InsertionSort(rows, places)}

\* A column of the frame holds numbers and texts, which Python does not order.
Mixed(rows, c) ==
    \E a, b \in 1..Len(rows) : IsNum(rows[a].keys[c]) # IsNum(rows[b].keys[c])

\* sort_values can order the frame: no column is mixed, or there are several
\* keys, which pandas factorizes, ordering a mixed column numbers first where
\* its version does so and raising where it does not.
Sortable(rows, keys) ==
    \/ \A c \in 1..Len(keys) : ~Mixed(rows, c)
    \/ Len(keys) > 1

Unsortable(rows, keys) == \E c \in 1..Len(keys) : Mixed(rows, c)

\* line 39: sort_values compares a number with a text and raises TypeError
SortRaise ==
    /\ call = "sort" /\ pc = "sort_values"
    /\ Unsortable(df, by.keys)
    /\ exc' = "TypeError" /\ pc' = "raised"
    /\ UNCHANGED <<exSel, hduls, by, conditions, df, result>>

\* hduls[i] can be read: i is an integer within the list
Indexable(list, v) == IsNum(v) /\ v[2] < Len(list)

\* hduls[i], for i counted from 0
Item(list, v) == list[v[2] + 1]

\* A variant that sorts the list it was given in place and returns it.
SortReturnInPlace ==
    /\ call = "sort" /\ pc = "sort_values"
    /\ Sortable(df, by.keys)
    /\ \E p \in SortValues(df, by.keys) :
          /\ \A n \in 1..Len(df) : Indexable(hduls, df[p[n]].index)
          /\ hduls' = [n \in 1..Len(df) |-> Item(hduls, df[p[n]].index)]
          /\ result' = <<hduls'>>
    /\ pc' = "returned"
    /\ UNCHANGED <<exSel, by, conditions, df, exc>>

\* line 39: a new list of the files, in the order of the sorted frame's index
SortReturn ==
    /\ call = "sort" /\ pc = "sort_values"
    /\ Sortable(df, by.keys)
    /\ \E p \in SortValues(df, by.keys) :
          /\ \A n \in 1..Len(df) : Indexable(hduls, df[p[n]].index)
          /\ result' = <<[n \in 1..Len(df) |-> Item(hduls, df[p[n]].index)]>>
    /\ pc' = "returned"
    /\ UNCHANGED <<exSel, hduls, by, conditions, df, exc>>

\* line 39: the list comprehension stops at the first index of the sorted frame
\* that hduls cannot be read at: TypeError for a text, IndexError for an
\* integer past the end
SortIndexRaise ==
    /\ call = "sort" /\ pc = "sort_values"
    /\ Sortable(df, by.keys)
    /\ \E p \in SortValues(df, by.keys) :
          LET bad == {n \in 1..Len(df) : ~Indexable(hduls, df[p[n]].index)}
              first == CHOOSE n \in bad : \A m \in bad : n <= m
          IN  /\ bad # {}
              /\ exc' = IF IsNum(df[p[first]].index) THEN "IndexError" ELSE "TypeError"
    /\ pc' = "raised"
    /\ UNCHANGED <<exSel, hduls, by, conditions, df, result>>

InitFilter ==
    /\ call = "filter"
    /\ heap = CallerHeap /\ files_or_hduls = NoArg
    /\ iter = <<>> /\ i = 0 /\ hdul = 0 /\ cm = 0
    /\ hduls \in Collections
    /\ by = NoBy /\ conditions \in ConditionArgs /\ df = <<>>
    /\ data = Data /\ key = 0 /\ index = NoIndex
    /\ sta_index_pairs = NoPairs /\ sta_index = <<>> /\ tel_name = <<>>
    /\ value = None /\ disk = NoDisk
    /\ pc = "start" /\ result = <<>> /\ exc = None

\* The names bound in filter's frame when line 43 starts: its parameters. key
\* is a local of filter (line 56 assigns it) and is not bound yet; the key of
\* line 49 is the comprehension's own.
FilterBound == {"hduls", "conditions"}

\* lines 43-54: the dict display {"index": ..., **{key: [...]}} evaluates the
\* name key of line 47 before the list comprehension of lines 47-51
FilterFrame ==
    /\ call = "filter" /\ pc = "start"
    /\ IF "key" \in FilterBound
       THEN /\ df' = [n \in 1..Len(hduls) |-> [index |-> Num(n - 1), keys |-> <<>>]]
            /\ pc' = "conditions"
            /\ UNCHANGED exc
       ELSE /\ exc' = "UnboundLocalError"
            /\ pc' = "raised"
            /\ UNCHANGED df
    /\ UNCHANGED <<exSel, hduls, by, conditions, result>>

NextSel ==
    \/ SortNormalise
    \/ SortFrame
    \/ SortReturn
    \/ SortRaise
    \/ SortIndexRaise
    \/ FilterFrame

\* ----------------------------------------- a call of get_station_names
\* The station ids a measurement row may carry; the last is in no array table.
PairIds == 1..(NumStations + 1)

\* The STA_INDEX column given: rows of two ids, or of three, or a 1-d column
PairArgs ==
    {[ndim |-> 2, rows |-> rs] : rs \in SeqUpTo(PairIds \X PairIds, MaxRows)}
    \cup {[ndim |-> 2, rows |-> <<<<a, a + 1, a + 2>>>>] : a \in 1..(NumStations - 1)}
    \cup {[ndim |-> 1, rows |-> rs] : rs \in SeqUpTo(PairIds, 1)}

\* The array table given: its index column, in table order, and its names
ArrayTables ==
    {[sta_index |-> ArraySta, tel_name |-> ArrayNames],
     [sta_index |-> [k \in 1..NumStations |-> NumStations + 1 - k],
      tel_name |-> ArrayNames],
     [sta_index |-> <<1, 2, 3>>, tel_name |-> <<<<"A", "0">>, <<"B", "0">>, <<"C", "0">>>>]}

InitNames ==
    /\ call = "get_station_names"
    /\ heap = CallerHeap /\ files_or_hduls = NoArg
    /\ iter = <<>> /\ i = 0 /\ hdul = 0 /\ cm = 0 /\ hduls = <<>>
    /\ by = NoBy /\ conditions = {} /\ df = <<>>
    /\ data = Data /\ key = 0 /\ index = NoIndex
    /\ sta_index_pairs \in PairArgs
    /\ \E t \in ArrayTables : sta_index = t.sta_index /\ tel_name = t.tel_name
    /\ value = None /\ disk = NoDisk
    /\ pc = "start" /\ result = <<>> /\ exc = None

\* lines 54-60
NamesReturn ==
    /\ call = "get_station_names" /\ pc = "start"
    /\ LET names == GetStationNames(sta_index_pairs, sta_index, tel_name)
       IN  IF names.err = None
           THEN /\ result' = <<names.val>> /\ pc' = "returned"
                /\ UNCHANGED exc
           ELSE /\ exc' = names.err /\ pc' = "raised"
                /\ UNCHANGED result
    /\ UNCHANGED exNames

\* -------------------------------------------------------------- get, set
\* The loaded file get and set are given: it has an OI_VIS table, with a VISAMP
\* column and the header key EXTVER, or it has none.
VisTable == [columns |-> [c \in {"VISAMP"} |-> "visamp values"],
             header |-> [k \in {"EXTVER"} |-> "1"]]

AccessFiles == {[e \in {} |-> VisTable], [e \in {"OI_VIS"} |-> VisTable]}

\* The key: "<ext>.<field>" or "<ext>.header.<field>"
AccessKeys == [ext : {"OI_VIS", "OI_T3"}, header : BOOLEAN,
               field : {"VISAMP", "EXTVER", "NOPE"}]

Loaded(content) == [content |-> content, closed |-> FALSE, origin |-> "caller"]

InitGet ==
    /\ call = "get"
    /\ heap \in {<<Loaded(c)>> : c \in AccessFiles}
    /\ files_or_hduls = NoArg
    /\ iter = <<>> /\ i = 0 /\ hdul = 1 /\ cm = 0 /\ hduls = <<>>
    /\ by = NoBy /\ conditions = {} /\ df = <<>>
    /\ data = Data /\ key \in AccessKeys /\ index = NoIndex
    /\ sta_index_pairs = NoPairs /\ sta_index = <<>> /\ tel_name = <<>>
    /\ value = None /\ disk = NoDisk
    /\ pc = "start" /\ result = <<>> /\ exc = None

InitSet ==
    /\ call = "set"
    /\ heap \in {<<Loaded(c)>> : c \in AccessFiles}
    /\ files_or_hduls = NoArg
    /\ iter = <<>> /\ i = 0 /\ hdul = 1 /\ cm = 0 /\ hduls = <<>>
    /\ by = NoBy /\ conditions = {} /\ df = <<>>
    /\ data = Data /\ key \in AccessKeys /\ index = NoIndex
    /\ sta_index_pairs = NoPairs /\ sta_index = <<>> /\ tel_name = <<>>
    /\ value \in {"2", "new values"} /\ disk = NoDisk
    /\ pc = "start" /\ result = <<>> /\ exc = None

\* The key names something the file has.
HasPath(content, k) ==
    /\ k.ext \in DOMAIN content
    /\ IF k.header THEN k.field \in DOMAIN content[k.ext].header
                   ELSE k.field \in DOMAIN content[k.ext].columns

\* A variant that looks the key up and raises KeyError when the file lacks it.
GetReturnStrict ==
    /\ call = "get" /\ pc = "start"
    /\ IF HasPath(heap[hdul].content, key)
       THEN /\ result' = <<IF key.header THEN heap[hdul].content[key.ext].header[key.field]
                            ELSE heap[hdul].content[key.ext].columns[key.field]>>
            /\ pc' = "returned"
            /\ UNCHANGED exc
       ELSE /\ exc' = "KeyError" /\ pc' = "raised"
            /\ UNCHANGED result
    /\ UNCHANGED <<heap, files_or_hduls, iter, i, hdul, cm, hduls, by, conditions, df,
                   data, key, index, sta_index_pairs, sta_index, tel_name, value, disk,
                   call>>

\* lines 99-109: the body of get is its docstring and "...": it returns None
GetReturn ==
    /\ call = "get" /\ pc = "start"
    /\ result' = <<None>> /\ pc' = "returned"
    /\ UNCHANGED <<exNames, exc>>

\* lines 113-125: the body of set is its docstring and "...": it returns None
SetReturn ==
    /\ call = "set" /\ pc = "start"
    /\ result' = <<None>> /\ pc' = "returned"
    /\ UNCHANGED <<exNames, exc>>

\* After set has returned, the caller gets the same key of the same file.
GetAfterSet ==
    /\ call = "set" /\ pc = "returned"
    /\ call' = "get" /\ pc' = "start" /\ result' = <<>>
    /\ UNCHANGED <<heap, files_or_hduls, iter, i, hdul, cm, hduls, by, conditions, df,
                   data, key, index, sta_index_pairs, sta_index, tel_name, value, disk,
                   exc>>

NextAccess ==
    \/ GetReturn
    \/ SetReturn
    \/ GetAfterSet

\* ------------------------------------------ delete_add_ins, calculate_vis
\* A path of the disk: a file, with its extensions and the samples of its
\* oi_vis2 table, or nothing.
NoFile == [present |-> FALSE, exts |-> {}, vis2data |-> <<>>]
DiskFile(exts, vis2data) == [present |-> TRUE, exts |-> exts, vis2data |-> vis2data]

\* The extensions delete_add_ins is to remove, and those of a raw file.
AddIns == {"oi_vis", "oi_flux"}
RawExts == {"oi_wavelength", "oi_vis2", "oi_t3"}

\* Squared visibilities: below 0, 0, 1, above 1.
Vis2Samples == {0 - 1, 0, 1, 2}
Vis2Columns == UNION {[1..n -> Vis2Samples] : n \in 1..MaxRows}

\* The disk: the file given, the one of its name in bad_data, the copy in vis,
\* and the directories beside the file.
StartDisk(exts, vis2data) ==
    [file |-> DiskFile(exts, vis2data), bad |-> NoFile, new |-> NoFile, dirs |-> {}]

\* What the actions of delete_add_ins and calculate_vis leave alone.
exPrep == <<call, files_or_hduls, iter, i, hduls, by, conditions, df, data, key, index,
            sta_index_pairs, sta_index, tel_name, value>>

InitDelete ==
    /\ call = "delete_add_ins"
    /\ heap = <<>> /\ files_or_hduls = NoArg
    /\ iter = <<>> /\ i = 0 /\ hdul = 0 /\ cm = 0 /\ hduls = <<>>
    /\ by = NoBy /\ conditions = {} /\ df = <<>>
    /\ data = Data /\ key = 0 /\ index = NoIndex
    /\ sta_index_pairs = NoPairs /\ sta_index = <<>> /\ tel_name = <<>>
    /\ value = None
    /\ disk \in {StartDisk(RawExts \cup a, <<1>>) : a \in SUBSET AddIns}
    /\ pc = "start" /\ result = <<>> /\ exc = None

InitCalc ==
    /\ call = "calculate_vis"
    /\ heap = <<>> /\ files_or_hduls = NoArg
    /\ iter = <<>> /\ i = 0 /\ hdul = 0 /\ cm = 0 /\ hduls = <<>>
    /\ by = NoBy /\ conditions = {} /\ df = <<>>
    /\ data = Data /\ key = 0 /\ index = NoIndex
    /\ sta_index_pairs = NoPairs /\ sta_index = <<>> /\ tel_name = <<>>
    /\ value = None
    /\ disk \in {StartDisk(RawExts \cup a, v) : a \in SUBSET AddIns, v \in Vis2Columns}
    /\ pc = "start" /\ result = <<>> /\ exc = None

\* fits.open(path, mode="update"): an HDUList whose changes are written back
\* when it is flushed or closed
Updating(f) == [content |-> f, closed |-> FALSE, origin |-> "update"]

\* pionier.py line 15
DeleteOpen ==
    /\ call \in {"delete_add_ins", "calculate_vis"} /\ pc = "start"
    /\ heap' = Append(heap, Updating(disk.file))
    /\ hdul' = Len(heap) + 1 /\ cm' = Len(heap) + 1 /\ pc' = "del_vis"
    /\ UNCHANGED <<exPrep, disk, result, exc>>

\* pionier.py lines 16-17: with either extension in the file, del hdul["oi_vis"],
\* which raises KeyError without an oi_vis
DeleteVis ==
    /\ call \in {"delete_add_ins", "calculate_vis"} /\ pc = "del_vis"
    /\ LET exts == heap[hdul].content.exts
       IN  IF exts \cap AddIns = {}
           THEN /\ pc' = "del_exit"
                /\ UNCHANGED <<heap, exc>>
           ELSE IF "oi_vis" \in exts
           THEN /\ heap' = [heap EXCEPT ![hdul].content.exts = @ \ {"oi_vis"}]
                /\ pc' = "del_flux"
                /\ UNCHANGED exc
           ELSE /\ exc' = "KeyError" /\ pc' = "del_exit"
                /\ UNCHANGED heap
    /\ UNCHANGED <<exPrep, hdul, cm, disk, result>>

\* pionier.py line 18: del hdul["oi_flux"], which raises KeyError without one
DeleteFlux ==
    /\ call \in {"delete_add_ins", "calculate_vis"} /\ pc = "del_flux"
    /\ IF "oi_flux" \in heap[hdul].content.exts
       THEN /\ heap' = [heap EXCEPT ![hdul].content.exts = @ \ {"oi_flux"}]
            /\ UNCHANGED exc
       ELSE /\ exc' = "KeyError"
            /\ UNCHANGED heap
    /\ pc' = "del_exit"
    /\ UNCHANGED <<exPrep, hdul, cm, disk, result>>

\* leaving the with block of line 15, normally or by the KeyError: the HDUList
\* is closed, and closing one opened for update writes it back
DeleteExit ==
    /\ call \in {"delete_add_ins", "calculate_vis"} /\ pc = "del_exit"
    /\ disk' = [disk EXCEPT !.file = heap[cm].content]
    /\ heap' = Closed(heap, cm)
    /\ IF exc # None THEN pc' = "raised" /\ UNCHANGED result
       ELSE IF call = "delete_add_ins" THEN pc' = "returned" /\ result' = <<None>>
       ELSE pc' = "prepare" /\ UNCHANGED result
    /\ UNCHANGED <<exPrep, hdul, cm, exc>>

\* unumpy.sqrt of a negative sample (line 50) raises ValueError or gives NaN,
\* by the library's version: whether it can raise for the column
SqrtRaises(vis2data) ==
    IF \E r \in 1..Len(vis2data) : vis2data[r] < 0 THEN BOOLEAN ELSE {FALSE}

\* pionier.py lines 28-55: the directories are made, the file is read and the
\* new table is computed
CalcPrepare ==
    /\ call = "calculate_vis" /\ pc = "prepare"
    /\ disk' = [disk EXCEPT !.dirs = @ \cup {"vis", "bad_data"}]
    /\ heap' = Append(heap, Closed(<<Opened(disk.file)>>, 1)[1])
    /\ \E raises \in SqrtRaises(disk.file.vis2data) :
          IF raises THEN exc' = "ValueError" /\ pc' = "raised"
          ELSE pc' = "copy" /\ UNCHANGED exc
    /\ UNCHANGED <<exPrep, hdul, cm, result>>

\* pionier.py lines 57-58: the file is copied to vis/<stem>_vis.fits and the
\* copy is opened for update
CalcCopy ==
    /\ call = "calculate_vis" /\ pc = "copy"
    /\ disk' = [disk EXCEPT !.new = disk.file]
    /\ heap' = Append(heap, Updating(disk.file))
    /\ hdul' = Len(heap) + 1 /\ cm' = Len(heap) + 1 /\ pc' = "check"
    /\ UNCHANGED <<exPrep, result, exc>>

\* pionier.py lines 59-60: np.max(vis2data > 1) or np.min(vis2data < 0), some
\* sample above 1 or every sample below 0
BadData(vis2data) ==
    \/ \E r \in 1..Len(vis2data) : vis2data[r] > 1
    \/ \A r \in 1..Len(vis2data) : vis2data[r] < 0

\* pionier.py lines 59-63: the file is moved to bad_data, the copy is removed
CalcBadData ==
    /\ call = "calculate_vis" /\ pc = "check"
    /\ BadData(heap[hdul].content.vis2data)
    /\ disk' = [disk EXCEPT !.bad = disk.file, !.file = NoFile, !.new = NoFile]
    /\ heap' = Closed(heap, cm)
    /\ result' = <<None>> /\ pc' = "returned"
    /\ UNCHANGED <<exPrep, hdul, cm, exc>>

\* pionier.py lines 65-79: oi_flux and oi_vis are appended to the copy, which is
\* written back, and the plot directories are made
CalcAppend ==
    /\ call = "calculate_vis" /\ pc = "check"
    /\ ~BadData(heap[hdul].content.vis2data)
    /\ LET content == [heap[hdul].content EXCEPT !.exts = @ \cup {"oi_flux", "oi_vis"}]
       IN  /\ heap' = Closed([heap EXCEPT ![hdul].content = content], cm)
           /\ disk' = [disk EXCEPT !.new = content,
                                    !.dirs = @ \cup {"plots", "vis/plots"}]
    /\ result' = <<None>> /\ pc' = "returned"
    /\ UNCHANGED <<exPrep, hdul, cm, exc>>

NextPrep ==
    \/ DeleteOpen
    \/ DeleteVis
    \/ DeleteFlux
    \/ DeleteExit
    \/ CalcPrepare
    \/ CalcCopy
    \/ CalcBadData
    \/ CalcAppend

Init == InitRead \/ InitData \/ InitSort \/ InitFilter \/ InitNames \/ InitGet \/ InitSet
        \/ InitDelete \/ InitCalc

Next == NextRead \/ NextData \/ NextSel \/ NamesReturn \/ NextAccess \/ NextPrep

Spec == Init /\ [][Next]_vars

\* ================================================================ claims
DatasetNames == {"flux", "vis2", "vis", "visphi", "t3"}

Fields(ds) == <<ds.header, ds.val, ds.err, ds.x, ds.y, ds.name>>

AllMasked(arr) == \A r \in 1..Len(arr.mask) : arr.mask[r]

\* C1: in every Data read_data returns for N files, hduls, header, wl and array
\* have length N, and so has every field of each of the five Datasets.
C1_Aligned ==
    (call = "read_data" /\ pc = "returned") =>
        LET d == result[1]
            N == Len(files_or_hduls.items)
        IN  /\ Len(d.hduls) = N /\ Len(d.header) = N
            /\ Len(d.wl) = N /\ Len(d.array) = N
            /\ \A k \in DatasetNames : \A f \in 1..6 : Len(Fields(d[k])[f]) = N

C1_Witness ==
    /\ call = "read_data" /\ pc = "returned"
    /\ Len(files_or_hduls.items) = MaxInputs
    /\ Len(result[1].visphi.name) = MaxInputs
    /\ \E n \in 1..MaxInputs : files_or_hduls.items[n].file.vis = "novisphi"

\* The files of the collection that meet every condition, in their order.
Matches(h) == \A c \in conditions : GetHeaderEntry(h, c.key) = c.value

\* C2 (as claimed): filter returns the files whose resolved header fields equal
\* the required value for every key of conditions, in their original order.
C2_FilterSelects ==
    (call = "filter" /\ pc \in {"returned", "raised"}
                     /\ Len(hduls) >= 1 /\ conditions # {}) =>
        /\ pc = "returned"
        /\ result[1] = SelectSeq(hduls, Matches)

\* The key tuple sort orders a file by.
KeyTuple(h) == [c \in 1..Len(by.keys) |-> GetHeaderEntry(h, by.keys[c])]

\* C3 (as claimed): sort returns the files in ascending order of their key
\* tuples, files of equal key tuples in their input order, for one key as for
\* several.
C3_SortStable ==
    (call = "sort" /\ pc = "returned") =>
        LET r == result[1]
        IN  /\ Len(r) = Len(hduls)
            /\ \A a, b \in 1..Len(r) :
                  a < b => /\ ~TupleLess(KeyTuple(r[b]), KeyTuple(r[a]))
                           /\ KeyTuple(r[a]) = KeyTuple(r[b]) => r[a].id < r[b].id

\* C4 (as claimed): a readable file without an oi_vis table does not make
\* read_data fail; it contributes nothing to vis and visphi and its other
\* tables are ingested.
C4_NoVisTolerated ==
    (/\ call = "read_data" /\ pc \in {"returned", "raised"}
     /\ \A n \in 1..Len(files_or_hduls.items) :
            files_or_hduls.items[n].file.state = "ok") =>
        LET items == files_or_hduls.items
            withVis == {n \in 1..Len(items) : items[n].file.vis # "absent"}
        IN  /\ pc = "returned"
            /\ Len(result[1].vis.val) = Cardinality(withVis)
            /\ Len(result[1].visphi.val) = Cardinality(withVis)
            /\ Len(result[1].t3.x) = Len(items)

\* C5: for a file whose oi_vis table has no VISPHI column, read_data appends one
\* visphi record, entirely masked, of the shape of that file's vis2 values and
\* with that file's vis2 names.
C5_SynthVisphi ==
    call = "read_data" =>
        /\ Len(data.visphi.val) \in {i - 1, i}
        /\ pc = "returned" => Len(data.visphi.val) = Len(iter)
        /\ \A n \in 1..Len(data.visphi.val) :
              iter[n].file.vis = "novisphi" =>
                  /\ AllMasked(data.visphi.val[n]) /\ AllMasked(data.visphi.err[n])
                  /\ Shape(data.visphi.val[n]) = Shape(data.vis2.val[n])
                  /\ Shape(data.visphi.err[n]) = Shape(data.vis2.val[n])
                  /\ data.visphi.name[n] = data.vis2.name[n]

C5_Witness ==
    /\ call = "read_data" /\ pc = "returned" /\ Len(iter) >= 2
    /\ iter[2].file.vis = "novisphi"
    /\ iter[1].file.rows # iter[2].file.rows
    /\ Len(data.visphi.val) = Len(iter)

InputContent(n) ==
    LET item == files_or_hduls.items[n]
    IN  IF item.kind = "path" THEN FileContent(n) ELSE heap[item.obj].content

\* C7: for a list of k inputs read returns k handles, the n-th holding the
\* content of the n-th input.
C7_OnePerInput ==
    (call = "read" /\ pc = "returned" /\ ~files_or_hduls.bare) =>
        /\ Len(result[1]) = Len(files_or_hduls.items)
        /\ \A n \in 1..Len(result[1]) : heap[result[1][n]].content = InputContent(n)

C7_Witness ==
    /\ call = "read" /\ pc = "returned" /\ ~files_or_hduls.bare
    /\ Len(result[1]) = 2
    /\ files_or_hduls.items[1].kind = "hdul"
    /\ files_or_hduls.items[2].kind = "path"

\* C8 (as claimed): read of one bare open handle returns one handle holding that
\* file, as read of the one-element list holding it does.
C8_BareHandle ==
    (/\ call = "read" /\ pc \in {"returned", "raised"}
     /\ files_or_hduls.bare /\ files_or_hduls.items[1].kind = "hdul") =>
        /\ pc = "returned"
        /\ Len(result[1]) = 1
        /\ heap[result[1][1]].content = heap[files_or_hduls.items[1].obj].content

\* C9 (as claimed): when the k-th input of read or read_data fails with an I/O
\* error, the caller still has the results of the k-1 inputs loaded before it.
C9_PartialKept ==
    (call \in {"read", "read_data"} /\ pc = "raised" /\ exc = "OSError" /\ i >= 2) =>
        /\ Len(result) = 1
        /\ IF call = "read" THEN Len(result[1]) = i - 1
                            ELSE Len(result[1].hduls) = i - 1

SourceExt(k) == IF k = "visphi" THEN "oi_vis" ELSE Ext(k)

\* The n-th record of Dataset k was read from the file (every record but a
\* visphi record of a file without a VISPHI column, which is made up).
ReadFromFile(k, n) == k = "visphi" => iter[n].file.vis = "visphi"

\* C11: every val and err array read_data has stored from a table carries that
\* table's flag column as its mask, and has as many rows as the table: a flagged
\* sample is masked and kept in place.
C11_MaskIsFlag ==
    call = "read_data" =>
        \A k \in DatasetNames : \A n \in 1..Len(data[k].err) :
            ReadFromFile(k, n) =>
                LET file == iter[n].file
                    val == data[k].val[n]
                    err == data[k].err[n]
                IN  /\ val.mask = Flag(file, SourceExt(k))
                    /\ err.mask = Flag(file, SourceExt(k))
                    /\ val.data.rows = Rows(file, SourceExt(k))
                    /\ err.data.rows = Rows(file, SourceExt(k))
                    /\ val.data.file = n /\ val.data.ext = SourceExt(k)
                    /\ err.data.file = n /\ err.data.ext = SourceExt(k)

C11_Witness ==
    /\ call = "read_data" /\ pc = "returned" /\ Len(iter) = MaxInputs
    /\ iter[1].file.vis = "visphi"
    /\ result[1].visphi.val[1].mask = <<FALSE, TRUE>>
    /\ result[1].t3.err[MaxInputs].mask = <<FALSE, TRUE>>

\* C12: for every t3 record, x is the stack (u1, u2, u1 + u2) and y the stack
\* (v1, v2, v1 + v2) of the columns of that file's oi_t3 table: the third leg is
\* the sum of the first two in every row.
C12_ClosureSum ==
    call = "read_data" =>
        \A n \in 1..Len(data.t3.y) :
            LET file == iter[n].file
                ver == data.t3.header[n].ver
                x == data.t3.x[n]
                y == data.t3.y[n]
            IN  /\ Len(x) = 3 /\ Len(y) = 3
                /\ x[1] = Coord(file, "oi_t3", ver, "u1coord")
                /\ x[2] = Coord(file, "oi_t3", ver, "u2coord")
                /\ y[1] = Coord(file, "oi_t3", ver, "v1coord")
                /\ y[2] = Coord(file, "oi_t3", ver, "v2coord")
                /\ Len(x[3]) = Rows(file, "oi_t3") /\ Len(y[3]) = Rows(file, "oi_t3")
                /\ \A r \in 1..Rows(file, "oi_t3") :
                      /\ x[3][r] = x[1][r] + x[2][r]
                      /\ y[3][r] = y[1][r] + y[2][r]

C12_Witness ==
    /\ call = "read_data" /\ pc = "returned" /\ Len(iter) = MaxInputs
    /\ Len(result[1].t3.x) = MaxInputs
    /\ Len(result[1].t3.x[1][3]) = MaxRows
    /\ result[1].t3.x[1][3] # result[1].t3.x[MaxInputs][3]

\* The name the array table gives a station id, and whether it gives one.
Resolved(a) == \E k \in 1..Len(sta_index) : sta_index[k] = a

NameOf(a) == tel_name[CHOOSE k \in 1..Len(sta_index) : sta_index[k] = a]

\* The label of a row of two or three ids: the names in the row's order.
LabelOf(row) ==
    IF Len(row) = 2 THEN NameOf(row[1]) \o <<"-">> \o NameOf(row[2])
    ELSE NameOf(row[1]) \o <<"-">> \o NameOf(row[2]) \o <<"-">> \o NameOf(row[3])

AllResolved == \A r \in 1..Len(sta_index_pairs.rows) :
                  \A c \in 1..Len(sta_index_pairs.rows[r]) :
                      Resolved(sta_index_pairs.rows[r][c])

\* C13: for rows of station ids that the array table all names,
\* get_station_names returns one label per row, the row's names joined by "-"
\* in the order of the ids: [[1,2],[2,3]] with ids [1,2,3] named [A0,B0,C0]
\* gives [A0-B0, B0-C0], and a row [2,1] gives B0-A0.
C13_LabelsInOrder ==
    (/\ call = "get_station_names" /\ pc \in {"returned", "raised"}
     /\ sta_index_pairs.ndim = 2 /\ Len(sta_index_pairs.rows) >= 1
     /\ AllResolved) =>
        /\ pc = "returned"
        /\ Len(result[1]) = Len(sta_index_pairs.rows)
        /\ \A r \in 1..Len(result[1]) : result[1][r] = LabelOf(sta_index_pairs.rows[r])
        /\ (sta_index = <<1, 2, 3>> /\ sta_index_pairs.rows = <<<<1, 2>>, <<2, 3>>>>) =>
              result[1] = <<<<"A", "0", "-", "B", "0">>, <<"B", "0", "-", "C", "0">>>>
        /\ (sta_index = <<1, 2, 3>> /\ sta_index_pairs.rows[1] = <<2, 1>>) =>
              result[1][1] = <<"B", "0", "-", "A", "0">>

C13_Witness ==
    /\ call = "get_station_names" /\ pc = "returned"
    /\ sta_index = <<1, 2, 3>>
    /\ sta_index_pairs.rows = <<<<2, 1>>, <<2, 3>>>>
    /\ result[1] = <<<<"B", "0", "-", "A", "0">>, <<"B", "0", "-", "C", "0">>>>

\* The name of a station id, empty when the array table does not name it.
NameOrEmpty(a) == IF Resolved(a) THEN NameOf(a) ELSE <<>>

\* C14 (as claimed): when the array table does not name some station id of some
\* row, get_station_names raises nothing and returns one label per row, with an
\* empty component in the place of every such id, in the first row as in later
\* ones.
C14_UnresolvedEmpty ==
    (/\ call = "get_station_names" /\ pc \in {"returned", "raised"}
     /\ sta_index_pairs.ndim = 2 /\ Len(sta_index_pairs.rows) >= 1
     /\ ~AllResolved) =>
        /\ pc = "returned"
        /\ Len(result[1]) = Len(sta_index_pairs.rows)
        /\ \A r \in 1..Len(result[1]) :
              LET row == sta_index_pairs.rows[r]
              IN  result[1][r] = Join([c \in 1..Len(row) |-> NameOrEmpty(row[c])])

\* The measurement rows of a stored coordinate field: its length, and for t3 the
\* length of a leg.
CoordRows(k, c) == IF k = "t3" THEN Len(c[1]) ELSE Len(c)

\* The fields of record n of Dataset k agree on the file and on the rows.
RowsAgree(k, n) ==
    LET ds == data[k]
        rows == Shape(ds.val[n])
    IN  /\ ds.header[n].file = n
        /\ ReadFromFile(k, n) => ds.val[n].data.file = n /\ ds.err[n].data.file = n
        /\ Len(ds.val[n].mask) = rows
        /\ Shape(ds.err[n]) = rows /\ Len(ds.err[n].mask) = rows
        /\ Len(ds.name[n]) = rows
        /\ k # "flux" => CoordRows(k, ds.x[n]) = rows /\ CoordRows(k, ds.y[n]) = rows

\* C15 (as claimed): in every Dataset the fields of one index describe the same
\* file and the same rows: val, err, name and the coordinates (where the Dataset
\* has coordinates; per leg for t3) have one row count, for visphi too, read or
\* made up.
C15_RowsAligned ==
    call = "read_data" =>
        \A k \in DatasetNames : \A n \in 1..Len(data[k].name) : RowsAgree(k, n)

\* C16 (as claimed): the made-up visphi record of a file without a VISPHI column
\* has the x and y of that file's vis2 record.
C16_SynthCoords ==
    call = "read_data" =>
        \A n \in 1..Len(data.visphi.name) :
            iter[n].file.vis = "novisphi" =>
                /\ data.visphi.x[n] = data.vis2.x[n]
                /\ data.visphi.y[n] = data.vis2.y[n]

\* The call is given readable files that have all their tables.
CompleteFiles ==
    \A n \in 1..Len(files_or_hduls.items) :
        /\ files_or_hduls.items[n].file.state = "ok"
        /\ files_or_hduls.items[n].file.vis # "absent"

\* C17 (as claimed): the flux record of every file has no coordinates and no
\* names, x, y and name are empty, and the oi_flux table is ingested whether it
\* has a STA_INDEX column or not.
C17_FluxBare ==
    (call = "read_data" /\ pc \in {"returned", "raised"} /\ CompleteFiles) =>
        /\ pc = "returned"
        /\ \A n \in 1..Len(result[1].flux.name) :
              /\ result[1].flux.x[n] = <<>>
              /\ result[1].flux.y[n] = <<>>
              /\ result[1].flux.name[n] = <<>>

\* The EXTVER of the tables a file is to be read from: the fixed one for the
\* multi-table family, the first one otherwise.
FileVer(file) == IF IsGrav(file.instrume) THEN GravIndex ELSE ExtVers(file)[1]

\* C18: the index read_data uses for a file is the one of that file's own
\* instrument, whatever files came before, and the wavelength table and every
\* measurement table of the file are read at it: the fixed index for the
\* multi-table family, the first table otherwise.
C18_IndexPerFile ==
    call = "read_data" =>
        /\ pc \in {"keys", "exit_with"} =>
              index = (IF IsGrav(iter[i].file.instrume) THEN GravIndex ELSE NoIndex)
        /\ \A n \in 1..Len(data.wl) : data.wl[n].ver = FileVer(iter[n].file)
        /\ \A k \in DatasetNames : \A n \in 1..Len(data[k].err) :
              /\ data[k].header[n].ver = FileVer(iter[n].file)
              /\ ReadFromFile(k, n) =>
                    /\ data[k].val[n].data.ver = FileVer(iter[n].file)
                    /\ data[k].err[n].data.ver = FileVer(iter[n].file)

C18_Witness ==
    /\ call = "read_data" /\ pc = "returned" /\ Len(iter) = 2
    /\ IsGrav(iter[1].file.instrume) /\ ~IsGrav(iter[2].file.instrume)
    /\ result[1].t3.header[1].ver = GravIndex
    /\ result[1].t3.header[2].ver = 1
    /\ result[1].wl[2].ver = 1

\* r holds files of the collection c, each once, in the order they have in c.
IsSubsequence(r, c) ==
    /\ Len(r) <= Len(c)
    /\ \A a \in 1..Len(r) : r[a].id \in 1..Len(c) /\ c[r[a].id] = r[a]
    /\ \A a, b \in 1..Len(r) : a < b => r[a].id < r[b].id

\* C19 (as claimed): filter(C, cond) is a subsequence of C, and filtering the
\* result by cond again gives the result back.
C19_FilterSubsequence ==
    (call = "filter" /\ pc \in {"returned", "raised"}) =>
        /\ pc = "returned"
        /\ IsSubsequence(result[1], hduls)
        /\ SelectSeq(result[1], Matches) = result[1]

\* The file has the header field a key names.
HasField(h, k) == KeyToAttribute(k) \in DOMAIN h.header

\* C20 (as claimed): in filter a condition on a field that a file does not have
\* raises nothing; the file is kept only when the required value is the empty
\* string, so a condition with another value on a field no file has gives the
\* empty list.
C20_MissingFieldEmpty ==
    (/\ call = "filter" /\ pc \in {"returned", "raised"}
     /\ \E c \in conditions : \E n \in 1..Len(hduls) : ~HasField(hduls[n], c.key)) =>
        /\ pc = "returned"
        /\ \A n \in 1..Len(hduls) :
              (\E c \in conditions : ~HasField(hduls[n], c.key) /\ c.value # <<>>) =>
                  \A a \in 1..Len(result[1]) : result[1][a].id # n
        /\ (\E c \in conditions :
                /\ c.value # <<>>
                /\ \A n \in 1..Len(hduls) : ~HasField(hduls[n], c.key)) =>
              result[1] = <<>>

\* The text sort is to order a file by for a key: the header field the key
\* names (up to the first T for "date"), the empty string without the field.
FieldOrEmpty(h, k) ==
    IF ~HasField(h, k) THEN <<>>
    ELSE IF k = "date" THEN BeforeT(h.header["DATE-OBS"])
    ELSE h.header[KeyToAttribute(k)]

FieldTuple(h) == [c \in 1..Len(by.keys) |-> FieldOrEmpty(h, by.keys[c])]

\* C21 (as claimed): when some file lacks the header field of a key of by,
\* "date" included, sort raises nothing and returns every file, ordered with the
\* empty string in the place of the missing field.
C21_SortMissingKey ==
    (/\ call = "sort" /\ pc \in {"returned", "raised"}
     /\ \E n \in 1..Len(hduls) : \E c \in 1..Len(by.keys) :
            ~HasField(hduls[n], by.keys[c])) =>
        /\ pc = "returned"
        /\ Len(result[1]) = Len(hduls)
        /\ \A n \in 1..Len(hduls) : \E a \in 1..Len(result[1]) : result[1][a] = hduls[n]
        /\ \A a, b \in 1..Len(result[1]) :
              a < b => ~TupleLess(FieldTuple(result[1][b]), FieldTuple(result[1][a]))

\* The calendar day of a DATE-OBS text: what stands before its first T.
DayOf(str) ==
    LET ts == {k \in 1..Len(str) : str[k] = Ord("T")}
    IN  IF ts = {} THEN str
        ELSE SubSeq(str, 1, (CHOOSE k \in ts : \A m \in ts : k <= m) - 1)

\* What a convenience name stands for in a file: "date" the day of DATE-OBS,
\* "instrument" the text of INSTRUME.
AliasValue(h, k) ==
    IF k = "date"
    THEN (IF "DATE-OBS" \in DOMAIN h.header THEN DayOf(h.header["DATE-OBS"]) ELSE <<>>)
    ELSE (IF "INSTRUME" \in DOMAIN h.header THEN h.header["INSTRUME"] ELSE <<>>)

AliasTuple(h) == [c \in 1..Len(by.keys) |-> AliasValue(h, by.keys[c])]

C23_InputUnchanged ==
    [][(call \in {"sort", "filter"}) => (hduls' = hduls)]_vars

C23_Witness ==
    /\ call = "sort" /\ pc = "returned"
    /\ Len(hduls) = 2 /\ hduls[1].id = 1 /\ hduls[2].id = 2
    /\ result[1] = <<hduls[2], hduls[1]>>

\* What the key names in the file: a column of a table or an entry of its header.
PathValue(content, k) ==
    IF k.header THEN content[k.ext].header[k.field]
    ELSE content[k.ext].columns[k.field]

\* C24 (as claimed): get returns the column or the header entry the key names,
\* and after set(file, key, v) on a header entry, get of that key returns v.
C24_GetSet ==
    (call = "get" /\ pc \in {"returned", "raised"} /\ HasPath(heap[hdul].content, key)) =>
        /\ pc = "returned"
        /\ result[1] = (IF value # None /\ key.header THEN value
                        ELSE PathValue(heap[hdul].content, key))

\* C25: get of a key whose extension, column or header entry the file does not
\* have returns None, raises nothing, and no step of get changes the file.
C25_GetAbsent ==
    /\ []((call = "get" /\ pc \in {"returned", "raised"}
                        /\ ~HasPath(heap[hdul].content, key)) =>
            (pc = "returned" /\ result = <<None>>))
    /\ [][(call = "get") => (heap' = heap)]_vars

C25_Witness ==
    /\ call = "get" /\ pc = "returned" /\ value = None
    /\ key.ext = "OI_VIS" /\ ~key.header /\ key.field = "NOPE"
    /\ "OI_VIS" \in DOMAIN heap[hdul].content
    /\ result = <<None>>

\* C26 (as claimed): set of a key whose extension the file does not have ends
\* in an error, not in a normal return, and leaves the file as it was.
C26_SetAbsent ==
    (call = "set" /\ pc \in {"returned", "raised"}
                  /\ key.ext \notin DOMAIN heap[hdul].content) =>
        /\ pc = "raised" /\ exc # None
        /\ heap[hdul].content \in AccessFiles

\* C27 (as claimed): delete_add_ins ends without an error for a file with both,
\* one or none of oi_vis and oi_flux, and leaves it with neither, its other
\* extensions as they were.
C27_DeleteAddIns ==
    (call = "delete_add_ins" /\ pc \in {"returned", "raised"}) =>
        /\ pc = "returned"
        /\ disk.file.exts = RawExts

\* The samples of the file calculate_vis was given, wherever it is now.
GivenSamples == IF disk.file.present THEN disk.file.vis2data ELSE disk.bad.vis2data

\* C28 (as claimed): calculate_vis takes a file for bad data exactly when some
\* sample of vis2data is above 1 or some sample is below 0: then the file is
\* in bad_data and there is no copy; otherwise the file is where it was and
\* the copy has an oi_flux and an oi_vis.
C28_BadData ==
    (call = "calculate_vis" /\ pc \in {"returned", "raised"} /\ exc # "KeyError") =>
        LET v == GivenSamples
            bad == \E r \in 1..Len(v) : v[r] > 1 \/ v[r] < 0
        IN  /\ pc = "returned"
            /\ IF bad
               THEN disk.bad.present /\ ~disk.file.present /\ ~disk.new.present
               ELSE /\ disk.file.present /\ ~disk.bad.present
                    /\ disk.new.present /\ {"oi_flux", "oi_vis"} \subseteq disk.new.exts

\* C29: for every collection and every key list, what sort returns is a
\* permutation of the collection: it has the collection's length and holds each
\* of its files exactly once, which for the empty collection is the empty list.
C29_SortPermutation ==
    (call = "sort" /\ pc = "returned") =>
        /\ Len(result[1]) = Len(hduls)
        /\ \A n \in 1..Len(hduls) :
              Cardinality({a \in 1..Len(result[1]) : result[1][a].id = n}) = 1

====
